---- MODULE Spec2Model ----
(***************************************************************************)
(* Model of tools/parse_findings.py: the findings parser and normaliser.   *)
(*                                                                         *)
(* Every Python str is modelled as a sequence of tokens (Str): a digit is  *)
(* a token of its own, so are "-" and "|", and a run of other characters   *)
(* is one token.  "" is << >>.  Formatting (f"F-{n:03d}", str(n)) and      *)
(* parsing (split("-"), int()) are computed on these sequences.            *)
(***************************************************************************)
EXTENDS Integers, Sequences, FiniteSets, TLC

VARIABLES
    \* the store: the file args.output
    store_exists,   \* os.path.exists(args.output)
    store_lines,    \* its lines, each the list of its cells
    \* one invocation of main per process
    pc,             \* position of each process in main
    args,           \* the report arguments, until they are parsed
    all_findings,   \* main's all_findings
    next_id,        \* main's next_id
    file_exists,    \* main's file_exists (line 403)
    runs,           \* invocations started so far
    summary,        \* the summary main prints (lines 413-415)
    \* the clusterer, run on its own (SpecCluster)
    findings,       \* the argument of deduplicate_and_assign_weaknesses
    cpc,            \* its position: "adapt", "dedup", "cluster", "done" ("off": not run)
    deduped,        \* the list step 1 retains
    idx,            \* 1-based index into deduped of the next finding of step 2
    cl,             \* weakness_counter, weakness_map and the findings enriched so far
    \* the adapters, run on one report (SpecAdapters)
    reports         \* the report arguments the adapters are run on

mvars == <<store_exists, store_lines, pc, args, all_findings, next_id,
           file_exists, runs, summary>>

cvars == <<findings, cpc, deduped, idx, cl, reports>>

vars == <<mvars, cvars>>

\* ------------------------------------------------------------------ bounds

\* Longest list of drafts handed to the clusterer in SpecCluster.
MaxLen == 3

\* Invocations of main started in one behaviour.
MaxRuns == 3

\* Most results of one run, or vulnerabilities of one dependency, in the
\* reports of several results that the adapters are run on in SpecAdapters.
MaxResults == 2

\* The processes that run main, possibly at the same time.
Procs == {"p1", "p2"}

\* ----------------------------------------------------------------- strings

DigitTok == <<"0", "1", "2", "3", "4", "5", "6", "7", "8", "9">>

IsDigit(t) == \E d \in 1..10 : DigitTok[d] = t

DigitVal(t) == (CHOOSE d \in 1..10 : DigitTok[d] = t) - 1

\* str(n) for an int n >= 0
RECURSIVE Str(_)
Str(n) == IF n < 10 THEN <<DigitTok[n + 1]>>
          ELSE Str(n \div 10) \o <<DigitTok[(n % 10) + 1]>>

\* f"{n:03d}": zero-padded to a minimum width of 3, never truncated
Pad3(n) == LET s == Str(n)
           IN  IF Len(s) >= 3 THEN s
               ELSE [i \in 1..(3 - Len(s)) |-> "0"] \o s

\* f"F-{next_id:03d}" and f"W-{weakness_counter:03d}"
FormatId(prefix, n) == <<prefix, "-">> \o Pad3(n)

\* s.split(sep): the list of the segments between the occurrences of sep
RECURSIVE Split(_, _)
Split(s, sep) ==
    IF \A i \in 1..Len(s) : s[i] # sep THEN <<s>>
    ELSE LET k == CHOOSE i \in 1..Len(s) :
                      s[i] = sep /\ \A j \in 1..(i - 1) : s[j] # sep
         IN  <<SubSeq(s, 1, k - 1)>> \o Split(SubSeq(s, k + 1, Len(s)), sep)

\* int(s) succeeds on a non-empty run of digits (ValueError otherwise)
IsInt(s) == Len(s) > 0 /\ \A i \in 1..Len(s) : IsDigit(s[i])

RECURSIVE ParseInt(_)
ParseInt(s) == IF Len(s) = 0 THEN 0
               ELSE 10 * ParseInt(SubSeq(s, 1, Len(s) - 1)) + DigitVal(s[Len(s)])

\* The lists of at most n members of S
BoundedSeq(S, n) == UNION {[1..k -> S] : k \in 0..n}

Abs(x) == IF x < 0 THEN -x ELSE x

Min2(a, b) == IF a <= b THEN a ELSE b

Max2(a, b) == IF a >= b THEN a ELSE b

\* ---------------------------------------------------- severity and category

\* A plausible slip: a level that the table lacks gives info
CodeqlSeverity_DefaultInfo(level) ==
    CASE level = <<"error">>   -> <<"high">>
      [] level = <<"warning">> -> <<"medium">>
      [] level = <<"note">>    -> <<"low">>
      [] OTHER                 -> <<"info">>

\* CODEQL_SEVERITY_MAP.get(level, "medium")
CodeqlSeverity(level) ==
    CASE level = <<"error">>   -> <<"high">>
      [] level = <<"warning">> -> <<"medium">>
      [] level = <<"note">>    -> <<"low">>
      [] level = <<"none">>    -> <<"info">>
      [] OTHER                 -> <<"medium">>

\* SEMGREP_SEVERITY_MAP.get(severity, "medium")
SemgrepSeverity(severity) ==
    CASE severity = <<"ERROR">>   -> <<"high">>
      [] severity = <<"WARNING">> -> <<"medium">>
      [] severity = <<"INFO">>    -> <<"low">>
      [] OTHER                    -> <<"medium">>

\* A plausible slip: the thresholds are exclusive
normalize_cvss_severity_Exclusive(cvss_score) ==
    IF cvss_score > 90 THEN <<"critical">>
    ELSE IF cvss_score > 70 THEN <<"high">>
    ELSE IF cvss_score > 40 THEN <<"medium">>
    ELSE <<"low">>

\* The score is held in tenths: 9.0 is 90
normalize_cvss_severity(cvss_score) ==
    IF cvss_score >= 90 THEN <<"critical">>
    ELSE IF cvss_score >= 70 THEN <<"high">>
    ELSE IF cvss_score >= 40 THEN <<"medium">>
    ELSE <<"low">>

\* "cwe" under re.IGNORECASE
IsCweTok(t) == t \in {"cwe", "CWE", "Cwe"}

\* (\d+) from position j: the longest run of digits starting there
RECURSIVE DigitRun(_, _)
DigitRun(s, j) ==
    IF j <= Len(s) /\ IsDigit(s[j]) THEN <<s[j]>> \o DigitRun(s, j + 1) ELSE <<>>

\* Where the digits of a match that starts at i begin, 0 when none does:
\* "cwe", then "-" (optional unless dash), then at least one digit
CweDigitsAt(s, i, dash) ==
    IF ~IsCweTok(s[i]) THEN 0
    ELSE IF i + 2 <= Len(s) /\ s[i + 1] = "-" /\ IsDigit(s[i + 2]) THEN i + 2
    ELSE IF ~dash /\ i + 1 <= Len(s) /\ IsDigit(s[i + 1]) THEN i + 1
    ELSE 0

\* re.search: the leftmost match; f"CWE-{match.group(1)}", "" for no match
SearchCwe(s, dash) ==
    LET at == {i \in 1..Len(s) : CweDigitsAt(s, i, dash) # 0}
    IN  IF at = {} THEN <<>>
        ELSE LET i == CHOOSE a \in at : \A b \in at : a <= b
             IN  <<"CWE", "-">> \o DigitRun(s, CweDigitsAt(s, i, dash))

RECURSIVE extract_cwe_from_tags(_)
extract_cwe_from_tags(tags) ==
    IF tags = <<>> THEN <<>>
    ELSE IF SearchCwe(Head(tags), FALSE) # <<>> THEN SearchCwe(Head(tags), FALSE)
    ELSE extract_cwe_from_tags(Tail(tags))

extract_cwe_from_text(text) == SearchCwe(text, TRUE)

\* ------------------------------------------------------------- fingerprint

\* A plausible slip: the tool is left out of the hashed string
compute_fingerprint_NoTool(tool, rule_id, file_path, start_line) ==
    rule_id \o <<"|">> \o file_path \o <<"|">> \o Str(start_line)

\* The string that is hashed; sha256(...)[:16] is taken as injective on it.
compute_fingerprint(tool, rule_id, file_path, start_line) ==
    tool \o <<"|">> \o rule_id \o <<"|">> \o file_path \o <<"|">> \o Str(start_line)

\* ----------------------------------------------------------------- parsers

\* A key that a report leaves out
Absent == <<"(absent)">>

Get(v, default) == IF v = Absent THEN default ELSE v

\* rules[rule["id"]] = rule, then rules.get(rule_id, {}) and its tags:
\* the last rule declared with the id, no tags when none is
RuleTags(rules, rule_id) ==
    LET at == {i \in 1..Len(rules) : rules[i].id = rule_id}
    IN  IF at = {} THEN <<>>
        ELSE rules[CHOOSE a \in at : \A b \in at : a >= b].tags

\* locations[0].physicalLocation of a SARIF result: uri and startLine,
\* "" and 0 when the result has no location
SarifFile(result) ==
    IF result.locations = <<>> THEN <<>> ELSE result.locations[1].uri

SarifLine(result) ==
    IF result.locations = <<>> THEN 0 ELSE result.locations[1].startLine

\* A draft as an adapter appends it (description is never written: left out)
Draft(tool, rule_id, cwe_id, severity, file_path, start_line) ==
    [tool |-> tool, rule_id |-> rule_id, cwe_id |-> cwe_id,
     severity |-> severity, file_path |-> file_path, start_line |-> start_line]

CodeqlResult(rules, result) ==
    LET rule_id == Get(result.ruleId, <<"unknown">>)
        cwe     == extract_cwe_from_tags(RuleTags(rules, rule_id))
    IN  Draft(<<"codeql">>, rule_id,
              IF cwe # <<>> THEN cwe ELSE extract_cwe_from_text(result.text),
              CodeqlSeverity(Get(result.level, <<"warning">>)),
              SarifFile(result), SarifLine(result))

\* A plausible slip: only the first run is read
parse_codeql_sarif_FirstRunOnly(sarif) ==
    IF sarif = <<>> THEN <<>>
    ELSE [i \in 1..Len(sarif[1].results) |->
             CodeqlResult(sarif[1].rules, sarif[1].results[i])]

\* sarif: the list of runs, each its driver's rules and its results
RECURSIVE parse_codeql_sarif(_)
parse_codeql_sarif(sarif) ==
    IF sarif = <<>> THEN <<>>
    ELSE LET run == Head(sarif)
         IN  [i \in 1..Len(run.results) |->
                 CodeqlResult(run.rules, run.results[i])]
             \o parse_codeql_sarif(Tail(sarif))

SemgrepJsonResult(result) ==
    LET cwe_list == result.cwe
        cwe == IF cwe_list.v = <<>> THEN <<>>
               ELSE IF cwe_list.list THEN extract_cwe_from_text(cwe_list.v[1])
               ELSE extract_cwe_from_text(cwe_list.v)
    IN  Draft(<<"semgrep">>, Get(result.check_id, <<"unknown">>), cwe,
              SemgrepSeverity(Get(result.severity, <<"WARNING">>)),
              result.path, result.line)

\* data: the list data["results"]
parse_semgrep_json(data) ==
    [i \in 1..Len(data) |-> SemgrepJsonResult(data[i])]

SemgrepSarifResult(rules, result) ==
    LET rule_id == Get(result.ruleId, <<"unknown">>)
    IN  Draft(<<"semgrep">>, rule_id,
              extract_cwe_from_tags(RuleTags(rules, rule_id)),
              CodeqlSeverity(Get(result.level, <<"warning">>)),
              SarifFile(result), SarifLine(result))

RECURSIVE parse_semgrep_sarif(_)
parse_semgrep_sarif(sarif) ==
    IF sarif = <<>> THEN <<>>
    ELSE LET run == Head(sarif)
         IN  [i \in 1..Len(run.results) |->
                 SemgrepSarifResult(run.rules, run.results[i])]
             \o parse_semgrep_sarif(Tail(sarif))

\* A plausible slip: the severity follows the result's level, as in the
\* other SARIF adapters
GitleaksResult_UsesLevel(result) ==
    Draft(<<"gitleaks">>, Get(result.ruleId, <<"unknown">>),
          <<"CWE", "-", "7", "9", "8">>,
          CodeqlSeverity(Get(result.level, <<"warning">>)),
          SarifFile(result), SarifLine(result))

\* Lines 211-225: the category and the severity are fixed
GitleaksResult(result) ==
    Draft(<<"gitleaks">>, Get(result.ruleId, <<"unknown">>),
          <<"CWE", "-", "7", "9", "8">>, <<"high">>,
          SarifFile(result), SarifLine(result))

RECURSIVE parse_gitleaks_sarif(_)
parse_gitleaks_sarif(sarif) ==
    IF sarif = <<>> THEN <<>>
    ELSE LET run == Head(sarif)
         IN  [i \in 1..Len(run.results) |-> GitleaksResult(run.results[i])]
             \o parse_gitleaks_sarif(Tail(sarif))

\* cvssv3 and cvssv2: [present, score], the score in tenths (0 when the
\* object has no score key); an empty or missing object is not present
DepcheckVuln(dep, vuln) ==
    LET cvss_score == IF vuln.cvssv3.present THEN vuln.cvssv3.score
                      ELSE IF vuln.cvssv2.present THEN vuln.cvssv2.score
                      ELSE 0
        cwe == IF vuln.cwes # <<>> THEN <<"CWE", "-">> \o vuln.cwes[1] ELSE <<>>
    IN  Draft(<<"depcheck">>, Get(vuln.name, <<"unknown">>), cwe,
              normalize_cvss_severity(cvss_score), dep.fileName, 0)

\* data: the list data["dependencies"]
RECURSIVE parse_depcheck_json(_)
parse_depcheck_json(data) ==
    IF data = <<>> THEN <<>>
    ELSE LET dep == Head(data)
         IN  [i \in 1..Len(dep.vulnerabilities) |->
                 DepcheckVuln(dep, dep.vulnerabilities[i])]
             \o parse_depcheck_json(Tail(data))

\* ----------------------------------------------------------- deduplication

DedupKey(f) == <<f.tool, f.rule_id, f.file_path, f.start_line>>

\* A plausible slip: a repeat replaces the record kept for its key
RECURSIVE WithinToolDedup_KeepLast(_, _, _)
WithinToolDedup_KeepLast(fs, seen, kept) ==
    IF fs = <<>> THEN kept
    ELSE LET f == Head(fs)
         IN  IF DedupKey(f) \in seen
             THEN WithinToolDedup_KeepLast(Tail(fs), seen,
                      [i \in 1..Len(kept) |->
                          IF DedupKey(kept[i]) = DedupKey(f) THEN f ELSE kept[i]])
             ELSE WithinToolDedup_KeepLast(Tail(fs), seen \cup {DedupKey(f)},
                                           Append(kept, f))

\* Step 1: keep the first draft of each key, in arrival order
RECURSIVE WithinToolDedup(_, _, _)
WithinToolDedup(fs, seen, kept) ==
    IF fs = <<>> THEN kept
    ELSE LET f == Head(fs)
         IN  IF DedupKey(f) \in seen
             THEN WithinToolDedup(Tail(fs), seen, kept)
             ELSE WithinToolDedup(Tail(fs), seen \cup {DedupKey(f)},
                                  Append(kept, f))

\* A plausible slip: the tolerance of 3 lines is left out
ClusterMatches_SameLine(f, wm) ==
    /\ f.cwe_id # <<>>
    /\ f.cwe_id = wm.cwe
    /\ f.file_path = wm.file
    /\ f.start_line = wm.line

\* A plausible slip: the test that the category is not empty is left out
ClusterMatches_EmptyJoins(f, wm) ==
    /\ f.cwe_id = wm.cwe
    /\ f.file_path = wm.file
    /\ Abs(f.start_line - wm.line) <= 3

\* A plausible slip: a tolerance of 4 lines
ClusterMatches_Within4(f, wm) ==
    /\ f.cwe_id # <<>>
    /\ f.cwe_id = wm.cwe
    /\ f.file_path = wm.file
    /\ Abs(f.start_line - wm.line) <= 4

\* Lines 288-293: the test of one weakness_map entry against one finding
ClusterMatches(f, wm) ==
    /\ f.cwe_id # <<>>
    /\ f.cwe_id = wm.cwe
    /\ f.file_path = wm.file
    /\ Abs(f.start_line - wm.line) <= 3

\* The state of step 2 before its first iteration (lines 282-283)
ClusterInit == [weakness_counter |-> 0, weakness_map |-> <<>>, out |-> <<>>]

\* A plausible slip: the scan keeps the last fitting cluster (no break)
FirstMatch_Last(wmap, f) ==
    LET hits == {k \in 1..Len(wmap) : ClusterMatches(f, wmap[k])}
    IN  IF hits = {} THEN 0 ELSE CHOOSE h \in hits : \A g \in hits : h >= g

\* Lines 286-295: the index of the first entry that matches, 0 for None
FirstMatch(wmap, f) ==
    LET hits == {k \in 1..Len(wmap) : ClusterMatches(f, wmap[k])}
    IN  IF hits = {} THEN 0 ELSE CHOOSE h \in hits : \A g \in hits : h <= g

\* A plausible slip: the anchor follows the latest member
JoinCluster_AnchorLatest(st, f, k) ==
    [weakness_counter |-> st.weakness_counter,
     weakness_map |-> [st.weakness_map EXCEPT ![k].line = f.start_line],
     out |-> Append(st.out,
         f @@ [unique_weakness_id |-> st.weakness_map[k].weakness_id,
               is_cross_tool_dup |-> TRUE])]

\* A plausible slip: the anchor is never updated
JoinCluster_AnchorKept(st, f, k) ==
    [weakness_counter |-> st.weakness_counter,
     weakness_map |-> st.weakness_map,
     out |-> Append(st.out,
         f @@ [unique_weakness_id |-> st.weakness_map[k].weakness_id,
               is_cross_tool_dup |-> TRUE])]

\* A plausible slip: max for min
JoinCluster_AnchorMax(st, f, k) ==
    [weakness_counter |-> st.weakness_counter,
     weakness_map |->
         [st.weakness_map EXCEPT
             ![k].line = Max2(st.weakness_map[k].line, f.start_line)],
     out |-> Append(st.out,
         f @@ [unique_weakness_id |-> st.weakness_map[k].weakness_id,
               is_cross_tool_dup |-> TRUE])]

\* Lines 297-301: f joins entry k
JoinCluster(st, f, k) ==
    [weakness_counter |-> st.weakness_counter,
     weakness_map |->
         [st.weakness_map EXCEPT
             ![k].line = Min2(st.weakness_map[k].line, f.start_line)],
     out |-> Append(st.out,
         f @@ [unique_weakness_id |-> st.weakness_map[k].weakness_id,
               is_cross_tool_dup |-> TRUE])]

\* A plausible slip: the counter is not advanced
OpenCluster_NoIncrement(st, f) ==
    LET wid == FormatId("W", st.weakness_counter + 1)
    IN  [weakness_counter |-> st.weakness_counter,
         weakness_map |->
             Append(st.weakness_map,
                    [cwe |-> f.cwe_id, file |-> f.file_path,
                     line |-> f.start_line, weakness_id |-> wid]),
         out |-> Append(st.out,
             f @@ [unique_weakness_id |-> wid, is_cross_tool_dup |-> FALSE])]

\* Lines 302-312: f opens a new entry
OpenCluster(st, f) ==
    LET wid == FormatId("W", st.weakness_counter + 1)
    IN  [weakness_counter |-> st.weakness_counter + 1,
         weakness_map |->
             Append(st.weakness_map,
                    [cwe |-> f.cwe_id, file |-> f.file_path,
                     line |-> f.start_line, weakness_id |-> wid]),
         out |-> Append(st.out,
             f @@ [unique_weakness_id |-> wid, is_cross_tool_dup |-> FALSE])]

\* Lines 285-312: one iteration of the loop of step 2, on finding f
ClusterStep(st, f) ==
    LET k == FirstMatch(st.weakness_map, f)
    IN  IF k # 0 THEN JoinCluster(st, f, k) ELSE OpenCluster(st, f)

RECURSIVE ClusterAll(_, _)
ClusterAll(st, fs) ==
    IF fs = <<>> THEN st ELSE ClusterAll(ClusterStep(st, Head(fs)), Tail(fs))

deduplicate_and_assign_weaknesses(fs) ==
    ClusterAll(ClusterInit, WithinToolDedup(fs, {}, <<>>)).out

\* -------------------------------------------------------------------- main

FileA == <<"A.java">>
FileB == <<"B.java">>

\* Lines 365-375, without the run metadata of the command line (pr_number,
\* task_id, condition, ai_share, pipeline), which no step reads
AddMetadata(f) ==
    f @@ [fingerprint |->
              compute_fingerprint(f.tool, f.rule_id, f.file_path, f.start_line),
          triage_status |-> <<>>, triage_notes |-> <<>>]

\* A report argument: path is "unset" (no flag), "missing" (no such file) or
\* "exists"; parses tells whether the adapter returns or raises; content is
\* what it reads
Unset == [path |-> "unset", parses |-> FALSE, content |-> <<>>]
Missing == [path |-> "missing", parses |-> FALSE, content |-> <<>>]
Malformed == [path |-> "exists", parses |-> FALSE, content |-> <<>>]
Report(content) == [path |-> "exists", parses |-> TRUE, content |-> content]

\* A plausible slip: the test that the file exists is left out
Given_NoExistsTest(r) == r.path # "unset"

\* args.x and os.path.exists(args.x)
Given(r) == r.path = "exists"

NoDrafts == [raised |-> FALSE, drafts |-> <<>>]

\* Lines 337-339
CodeqlPart(a) ==
    IF Given(a.codeql_sarif)
    THEN IF a.codeql_sarif.parses
         THEN [raised |-> FALSE,
               drafts |-> parse_codeql_sarif(a.codeql_sarif.content)]
         ELSE [raised |-> TRUE, drafts |-> <<>>]
    ELSE NoDrafts

\* A plausible slip: the fallback is read beside the JSON report (if for elif)
SemgrepPart_Both(a) ==
    LET json  == IF Given(a.semgrep_json) /\ a.semgrep_json.parses
                 THEN parse_semgrep_json(a.semgrep_json.content) ELSE <<>>
        sarif == IF Given(a.semgrep_sarif) /\ a.semgrep_sarif.parses
                 THEN parse_semgrep_sarif(a.semgrep_sarif.content) ELSE <<>>
    IN  [raised |-> \/ Given(a.semgrep_json) /\ ~a.semgrep_json.parses
                    \/ Given(a.semgrep_sarif) /\ ~a.semgrep_sarif.parses,
         drafts |-> json \o sarif]

\* Lines 342-349
SemgrepPart(a) ==
    IF Given(a.semgrep_json)
    THEN IF a.semgrep_json.parses
         THEN [raised |-> FALSE,
               drafts |-> parse_semgrep_json(a.semgrep_json.content)]
         ELSE [raised |-> TRUE, drafts |-> <<>>]
    ELSE IF Given(a.semgrep_sarif)
    THEN IF a.semgrep_sarif.parses
         THEN [raised |-> FALSE,
               drafts |-> parse_semgrep_sarif(a.semgrep_sarif.content)]
         ELSE [raised |-> TRUE, drafts |-> <<>>]
    ELSE NoDrafts

\* Lines 351-354
GitleaksPart(a) ==
    IF Given(a.gitleaks_sarif)
    THEN IF a.gitleaks_sarif.parses
         THEN [raised |-> FALSE,
               drafts |-> parse_gitleaks_sarif(a.gitleaks_sarif.content)]
         ELSE [raised |-> TRUE, drafts |-> <<>>]
    ELSE NoDrafts

\* Lines 356-359
DepcheckPart(a) ==
    IF Given(a.depcheck_json)
    THEN IF a.depcheck_json.parses
         THEN [raised |-> FALSE,
               drafts |-> parse_depcheck_json(a.depcheck_json.content)]
         ELSE [raised |-> TRUE, drafts |-> <<>>]
    ELSE NoDrafts

\* A plausible slip: a report that fails to parse is skipped
ParseReports_Swallow(a) ==
    LET parts == <<CodeqlPart(a), SemgrepPart(a), GitleaksPart(a), DepcheckPart(a)>>
    IN  [raised |-> FALSE,
         drafts |-> parts[1].drafts \o parts[2].drafts
                      \o parts[3].drafts \o parts[4].drafts]

\* Lines 334-359: an adapter that raises ends main there
ParseReports(a) ==
    LET parts == <<CodeqlPart(a), SemgrepPart(a), GitleaksPart(a), DepcheckPart(a)>>
    IN  [raised |-> \E i \in 1..4 : parts[i].raised,
         drafts |-> parts[1].drafts \o parts[2].drafts
                      \o parts[3].drafts \o parts[4].drafts]

\* Lines 396-401, without the five columns of run metadata
fieldnames ==
    <<"finding_id", "tool", "rule_id", "cwe_id", "severity", "file_path",
      "start_line", "fingerprint", "triage_status", "is_cross_tool_dup",
      "unique_weakness_id", "triage_notes">>

\* writer.writeheader(): the line of the column names
HeaderRow == [i \in 1..Len(fieldnames) |-> <<fieldnames[i]>>]

\* The text csv writes for a value: str(v)
Cell(f, col) ==
    CASE col = "start_line"        -> Str(f.start_line)
      [] col = "is_cross_tool_dup" ->
             IF f.is_cross_tool_dup THEN <<"True">> ELSE <<"False">>
      [] col = "finding_id"         -> f.finding_id
      [] col = "tool"               -> f.tool
      [] col = "rule_id"            -> f.rule_id
      [] col = "cwe_id"             -> f.cwe_id
      [] col = "severity"           -> f.severity
      [] col = "file_path"          -> f.file_path
      [] col = "fingerprint"        -> f.fingerprint
      [] col = "triage_status"      -> f.triage_status
      [] col = "unique_weakness_id" -> f.unique_weakness_id
      [] col = "triage_notes"       -> f.triage_notes

\* writer.writerows(all_findings)
RowOf(f) == [i \in 1..Len(fieldnames) |-> Cell(f, fieldnames[i])]

Rows(fs) == [i \in 1..Len(fs) |-> RowOf(fs[i])]

\* csv.DictReader's row.get(key, default): the first line names the columns,
\* the last column of a repeated name wins
DictGet(names, row, key, default) ==
    LET at == {i \in 1..Len(names) : names[i] = <<key>> /\ i <= Len(row)}
    IN  IF at = {} THEN default
        ELSE row[CHOOSE a \in at : \A b \in at : a >= b]

\* A plausible slip: the id after the last row's, not after the largest
RECURSIVE ScanRows_LastRow(_, _, _, _)
ScanRows_LastRow(names, lines, i, nid) ==
    IF i > Len(lines) THEN [raised |-> FALSE, next_id |-> nid]
    ELSE LET fid   == DictGet(names, lines[i], "finding_id", FormatId("F", 0))
             parts == Split(fid, "-")
         IN  IF Len(parts) < 2 \/ ~IsInt(parts[2])
             THEN [raised |-> TRUE, next_id |-> nid]
             ELSE ScanRows_LastRow(names, lines, i + 1, ParseInt(parts[2]) + 1)

\* A plausible slip: max(next_id, num), the largest id itself
RECURSIVE ScanRows_NoPlusOne(_, _, _, _)
ScanRows_NoPlusOne(names, lines, i, nid) ==
    IF i > Len(lines) THEN [raised |-> FALSE, next_id |-> nid]
    ELSE LET fid   == DictGet(names, lines[i], "finding_id", FormatId("F", 0))
             parts == Split(fid, "-")
         IN  IF Len(parts) < 2 \/ ~IsInt(parts[2])
             THEN [raised |-> TRUE, next_id |-> nid]
             ELSE ScanRows_NoPlusOne(names, lines, i + 1,
                                     Max2(nid, ParseInt(parts[2])))

\* Lines 386-389, from row i on: [raised, next_id]
RECURSIVE ScanRows(_, _, _, _)
ScanRows(names, lines, i, nid) ==
    IF i > Len(lines) THEN [raised |-> FALSE, next_id |-> nid]
    ELSE LET fid   == DictGet(names, lines[i], "finding_id", FormatId("F", 0))
             parts == Split(fid, "-")
         IN  IF Len(parts) < 2 \/ ~IsInt(parts[2])
             THEN [raised |-> TRUE, next_id |-> nid]
             ELSE ScanRows(names, lines, i + 1,
                           Max2(nid, ParseInt(parts[2]) + 1))

\* Lines 382-389
ScanNextId(exists, lines) ==
    IF ~exists \/ lines = <<>> THEN [raised |-> FALSE, next_id |-> 1]
    ELSE ScanRows(lines[1], lines, 2, 1)

\* Lines 391-393
AssignIds(fs, nid) ==
    [i \in 1..Len(fs) |-> fs[i] @@ [finding_id |-> FormatId("F", nid + i - 1)]]

NoArgs == [codeql_sarif |-> Unset, semgrep_json |-> Unset,
           semgrep_sarif |-> Unset, gitleaks_sarif |-> Unset,
           depcheck_json |-> Unset]

\* The reports the invocations are given

Rule089 == [id |-> <<"java/sql-injection">>,
            tags |-> <<<<"security">>,
                       <<"external/", "cwe", "/", "cwe", "-", "0", "8", "9">>>>]

CodeqlReport ==
    <<[rules |-> <<Rule089>>,
       results |-> <<[ruleId |-> <<"java/sql-injection">>, level |-> <<"error">>,
                      text |-> <<"Query built from user input">>,
                      locations |-> <<[uri |-> FileA, startLine |-> 10]>>]>>]>>

SemgrepJsonReport ==
    <<[check_id |-> <<"java.lang.security.sqli">>, severity |-> <<"ERROR">>,
       cwe |-> [list |-> TRUE,
                v |-> <<<<"CWE", "-", "0", "8", "9", ": SQL Injection">>>>],
       path |-> FileA, line |-> 12]>>

GitleaksReport ==
    <<[rules |-> <<>>,
       results |-> <<[ruleId |-> <<"generic", "-", "api", "-", "key">>,
                      level |-> Absent, text |-> <<"Secret detected">>,
                      locations |-> <<[uri |-> FileB, startLine |-> 3]>>]>>]>>

\* The arguments an invocation may be started with: few, so that several
\* invocations fit in one behaviour; the third tool's report is given only
\* beside the reports of the first two
ArgSets ==
    {a \in [codeql_sarif   : {Unset, Malformed, Report(CodeqlReport)},
            semgrep_json   : {Unset, Missing, Report(SemgrepJsonReport)},
            semgrep_sarif  : {Unset, Malformed},
            gitleaks_sarif : {Unset, Report(GitleaksReport)},
            depcheck_json  : {Unset, Malformed}] :
        Given(a.gitleaks_sarif) =>
            /\ a.codeql_sarif = Report(CodeqlReport)
            /\ a.semgrep_json = Report(SemgrepJsonReport)}

Idle(p) == pc[p] \in {"idle", "done", "aborted"}

\* Lines 319-334: a fresh process starts main with its arguments
Start(p) ==
    /\ Idle(p)
    /\ runs < MaxRuns
    /\ runs' = runs + 1
    /\ \E a \in ArgSets : args' = [args EXCEPT ![p] = a]
    /\ pc' = [pc EXCEPT ![p] = "parse"]
    /\ UNCHANGED <<store_exists, store_lines, all_findings, next_id,
                   file_exists, summary, cvars>>

\* A plausible slip: the weakness counter goes on from the largest
\* unique_weakness_id of the store
Parse_ContinueWeaknessIds(p) ==
    /\ pc[p] = "parse"
    /\ LET r == ParseReports(args[p])
           nums == {ParseInt(SubSeq(store_lines[i][11], 3, Len(store_lines[i][11]))) :
                       i \in 2..Len(store_lines)}
           last == IF nums = {} THEN 0 ELSE CHOOSE m \in nums : \A n \in nums : n <= m
       IN  IF r.raised
           THEN /\ pc' = [pc EXCEPT ![p] = "aborted"]
                /\ UNCHANGED all_findings
           ELSE /\ pc' = [pc EXCEPT ![p] = "scan"]
                /\ all_findings' =
                     [all_findings EXCEPT ![p] =
                         ClusterAll(
                             [ClusterInit EXCEPT !.weakness_counter = last],
                             WithinToolDedup(
                                 [i \in 1..Len(r.drafts) |-> AddMetadata(r.drafts[i])],
                                 {}, <<>>)).out]
    /\ args' = [args EXCEPT ![p] = NoArgs]
    /\ UNCHANGED <<store_exists, store_lines, next_id, file_exists, runs,
                   summary, cvars>>

\* Lines 334-378: parse, add the metadata, deduplicate and cluster. An
\* adapter that raises ends the process.
Parse(p) ==
    /\ pc[p] = "parse"
    /\ LET r == ParseReports(args[p])
       IN  IF r.raised
           THEN /\ pc' = [pc EXCEPT ![p] = "aborted"]
                /\ UNCHANGED all_findings
           ELSE /\ pc' = [pc EXCEPT ![p] = "scan"]
                /\ all_findings' =
                     [all_findings EXCEPT ![p] =
                         deduplicate_and_assign_weaknesses(
                             [i \in 1..Len(r.drafts) |-> AddMetadata(r.drafts[i])])]
    /\ args' = [args EXCEPT ![p] = NoArgs]
    /\ UNCHANGED <<store_exists, store_lines, next_id, file_exists, runs,
                   summary, cvars>>

\* Lines 380-393: read the store for the last id, then number the findings.
\* A row whose finding_id does not parse raises, which ends the process.
Scan(p) ==
    /\ pc[p] = "scan"
    /\ LET r == ScanNextId(store_exists, store_lines)
       IN  IF r.raised
           THEN /\ pc' = [pc EXCEPT ![p] = "aborted"]
                /\ all_findings' = [all_findings EXCEPT ![p] = <<>>]
                /\ UNCHANGED next_id
           ELSE /\ pc' = [pc EXCEPT ![p] = "check"]
                /\ all_findings' =
                     [all_findings EXCEPT ![p] = AssignIds(all_findings[p], r.next_id)]
                /\ next_id' =
                     [next_id EXCEPT ![p] = r.next_id + Len(all_findings[p])]
    /\ UNCHANGED <<store_exists, store_lines, args, file_exists, runs,
                   summary, cvars>>

\* Line 403
CheckExists(p) ==
    /\ pc[p] = "check"
    /\ file_exists' = [file_exists EXCEPT ![p] = store_exists]
    /\ pc' = [pc EXCEPT ![p] = "open"]
    /\ UNCHANGED <<store_exists, store_lines, args, all_findings, next_id,
                   runs, summary, cvars>>

\* Line 404: open(args.output, "a") creates the file
Open(p) ==
    /\ pc[p] = "open"
    /\ store_exists' = TRUE
    /\ pc' = [pc EXCEPT ![p] = "write"]
    /\ UNCHANGED <<store_lines, args, all_findings, next_id, file_exists,
                   runs, summary, cvars>>

\* Nothing printed
NoSummary == [printed |-> FALSE, total |-> 0, unique_weaknesses |-> 0,
              cross_tool |-> 0]

\* A plausible slip: the weakness ids are counted as a list, not as a set
Summary_IdsAsList(fs) ==
    [printed |-> TRUE,
     total |-> Len(fs),
     unique_weaknesses |-> Len(fs),
     cross_tool |-> Cardinality({i \in 1..Len(fs) : fs[i].is_cross_tool_dup})]

\* Lines 411-415: total findings, unique weaknesses, cross-tool overlaps
Summary(fs) ==
    [printed |-> TRUE,
     total |-> Len(fs),
     unique_weaknesses |->
         Cardinality({fs[i].unique_weakness_id : i \in 1..Len(fs)}),
     cross_tool |-> Cardinality({i \in 1..Len(fs) : fs[i].is_cross_tool_dup})]

\* What lines 405-408 append
Appended(exists, fs) ==
    (IF ~exists THEN <<HeaderRow>> ELSE <<>>) \o Rows(fs)

\* A plausible slip: the store is opened with "w", which truncates it (the
\* truncation is put at the write)
Write_Truncate(p) ==
    /\ pc[p] = "write"
    /\ store_lines' = Appended(file_exists[p], all_findings[p])
    /\ summary' = [summary EXCEPT ![p] = Summary(all_findings[p])]
    /\ pc' = [pc EXCEPT ![p] = "exit"]
    /\ UNCHANGED <<store_exists, args, all_findings, next_id, file_exists,
                   runs, cvars>>

\* A guard the code does not have: a finding whose id a stored row already
\* carries is not written
Write_SkipKnownIds(p) ==
    /\ pc[p] = "write"
    /\ LET known == {store_lines[i][1] : i \in 1..Len(store_lines)}
           fresh == SelectSeq(all_findings[p], LAMBDA f : f.finding_id \notin known)
       IN  store_lines' = store_lines \o Appended(file_exists[p], fresh)
    /\ summary' = [summary EXCEPT ![p] = Summary(all_findings[p])]
    /\ pc' = [pc EXCEPT ![p] = "exit"]
    /\ UNCHANGED <<store_exists, args, all_findings, next_id, file_exists,
                   runs, cvars>>

\* A plausible slip: with no finding to write, the header is not written
Write_NoHeaderWhenEmpty(p) ==
    /\ pc[p] = "write"
    /\ store_lines' =
          IF all_findings[p] = <<>> THEN store_lines
          ELSE store_lines \o Appended(file_exists[p], all_findings[p])
    /\ summary' = [summary EXCEPT ![p] = Summary(all_findings[p])]
    /\ pc' = [pc EXCEPT ![p] = "exit"]
    /\ UNCHANGED <<store_exists, args, all_findings, next_id, file_exists,
                   runs, cvars>>

\* Lines 405-416: the header and the rows reach the file in one write when
\* the file is closed; then the summary is printed
Write(p) ==
    /\ pc[p] = "write"
    /\ store_lines' = store_lines \o Appended(file_exists[p], all_findings[p])
    /\ summary' = [summary EXCEPT ![p] = Summary(all_findings[p])]
    /\ pc' = [pc EXCEPT ![p] = "exit"]
    /\ UNCHANGED <<store_exists, args, all_findings, next_id, file_exists,
                   runs, cvars>>

\* main returns: the process ends, its locals and its console with it
Exit(p) ==
    /\ pc[p] = "exit"
    /\ pc' = [pc EXCEPT ![p] = "done"]
    /\ all_findings' = [all_findings EXCEPT ![p] = <<>>]
    /\ next_id' = [next_id EXCEPT ![p] = 1]
    /\ file_exists' = [file_exists EXCEPT ![p] = FALSE]
    /\ summary' = [summary EXCEPT ![p] = NoSummary]
    /\ UNCHANGED <<store_exists, store_lines, args, runs, cvars>>

MainIdle ==
    /\ store_exists = FALSE
    /\ store_lines = <<>>
    /\ pc = [p \in Procs |-> "idle"]
    /\ args = [p \in Procs |-> NoArgs]
    /\ all_findings = [p \in Procs |-> <<>>]
    /\ next_id = [p \in Procs |-> 1]
    /\ file_exists = [p \in Procs |-> FALSE]
    /\ runs = 0
    /\ summary = [p \in Procs |-> NoSummary]

ClusterOff ==
    /\ findings = <<>>
    /\ cpc = "off"
    /\ deduped = <<>>
    /\ idx = 1
    /\ cl = ClusterInit
    /\ reports = NoArgs

Init == MainIdle /\ ClusterOff

Next ==
    \E p \in Procs :
        \/ Start(p)
        \/ Parse(p)
        \/ Scan(p)
        \/ CheckExists(p)
        \/ Open(p)
        \/ Write(p)
        \/ Exit(p)

\* Invocations that may overlap
Spec == Init /\ [][Next]_vars

\* An invocation starts when no other is running
StartSerial(p) ==
    /\ \A q \in Procs : Idle(q)
    /\ Start(p)

Col(name) == CHOOSE i \in 1..Len(fieldnames) : fieldnames[i] = name

\* The manual triage of the spec's data model: between invocations somebody
\* fills in the triage_status of a row (of the oldest row, with TP: the
\* engine never reads the cell, so one row and one value stand for all)
Triage ==
    /\ \A q \in Procs : Idle(q)
    /\ \E i \in {2} \cap (1..Len(store_lines)) :
          /\ store_lines[i][Col("triage_status")] = <<>>
          /\ store_lines' =
                [store_lines EXCEPT ![i][Col("triage_status")] = <<"TP">>]
    /\ UNCHANGED <<store_exists, pc, args, all_findings, next_id, file_exists,
                   runs, summary, cvars>>

NextSerial ==
    \/ \E p \in Procs :
          \/ StartSerial(p)
          \/ Parse(p)
          \/ Scan(p)
          \/ CheckExists(p)
          \/ Open(p)
          \/ Write(p)
          \/ Exit(p)
    \/ Triage

\* Invocations run one after another, each a fresh process
SpecSerial == Init /\ [][NextSerial]_vars

\* ------------------------------------------------------- claims on main

\* The number after "F-" in a finding_id cell
IdNumber(cell) == ParseInt(SubSeq(cell, 3, Len(cell)))

IsIdCell(cell) ==
    /\ Len(cell) >= 3
    /\ cell[1] = "F"
    /\ cell[2] = "-"
    /\ \A i \in 3..Len(cell) : IsDigit(cell[i])

\* A store as serial invocations leave it: the header, then data rows only
WellFormed(lines) ==
    lines # <<>> =>
        /\ lines[1] = HeaderRow
        /\ \A i \in 2..Len(lines) : IsIdCell(lines[i][1])

\* The largest numeric finding_id suffix of the rows, 0 when there is no row
MaxSuffix(lines) ==
    LET nums == {IdNumber(lines[i][1]) : i \in 2..Len(lines)}
    IN  IF nums = {} THEN 0 ELSE CHOOSE m \in nums : \A n \in nums : n <= m

\* C1: whenever an invocation scans a well-formed store whose largest id
\* suffix is m (0 for a store that is absent, empty or only a header), the
\* scan succeeds and the n retained records get F-(m+1) .. F-(m+n), in the
\* order the clusterer returned them, each otherwise unchanged.
C1_IdContinuity ==
    [][\A p \in Procs :
         (pc[p] = "scan" /\ pc'[p] # "scan" /\ WellFormed(store_lines)) =>
            LET m == IF store_exists THEN MaxSuffix(store_lines) ELSE 0
                before == all_findings[p]
                after  == all_findings'[p]
            IN  /\ pc'[p] = "check"
                /\ Len(after) = Len(before)
                /\ \A i \in 1..Len(before) :
                      /\ after[i].finding_id = FormatId("F", m + i)
                      /\ \A k \in DOMAIN before[i] : after[i][k] = before[i][k]
      ]_vars

\* An invocation holding two records has scanned a store whose largest id,
\* F-002, is not on the last row, and numbered its records F-003 and F-004.
C1_Witness ==
    \E p \in Procs :
        /\ pc[p] = "check"
        /\ WellFormed(store_lines)
        /\ Len(store_lines) = 4
        /\ IdNumber(store_lines[3][1]) = 2
        /\ IdNumber(store_lines[4][1]) = 1
        /\ Len(all_findings[p]) = 2
        /\ all_findings[p][1].finding_id = FormatId("F", 3)
        /\ all_findings[p][2].finding_id = FormatId("F", 4)

\* C2: under serial invocations the finding_id numbers of the store's rows
\* are strictly increasing in row order.
C2_IdsStrictlyIncreasing ==
    \A i, j \in 2..Len(store_lines) :
        i < j => IdNumber(store_lines[i][1]) < IdNumber(store_lines[j][1])

\* Three invocations have run, the last of them has written, and the store
\* holds three rows.
C2_Witness ==
    /\ runs = 3
    /\ \E p \in Procs : pc[p] = "done"
    /\ \A p \in Procs : Idle(p)
    /\ Len(store_lines) = 4
    /\ IdNumber(store_lines[4][1]) = 3

CountId(lines, fid) == Cardinality({i \in 1..Len(lines) : lines[i][1] = fid})

\* C3: once an invocation is past its scan nothing stops it: it never aborts,
\* and its write appends every record under the id the scan gave it, whatever
\* the store holds by then; so an id that another invocation has written in
\* the meantime ends on two rows.
C3_NoGuardAfterScan ==
    [][\A p \in Procs :
         (pc[p] \in {"check", "open", "write"} /\ pc'[p] # pc[p]) =>
            /\ pc'[p] # "aborted"
            /\ pc[p] = "write" =>
                 \A i \in 1..Len(all_findings[p]) :
                    CountId(store_lines', all_findings[p][i].finding_id)
                       = CountId(store_lines, all_findings[p][i].finding_id) + 1
      ]_vars

\* Both invocations scanned before either appended, both have finished, and
\* the store holds two rows with the id F-001.
C3_Witness ==
    /\ \A p \in Procs : pc[p] = "done"
    /\ runs = 2
    /\ CountId(store_lines, FormatId("F", 1)) = 2

\* A report that main reads and that does not parse: the SARIF fallback of
\* the second tool is read only when its JSON report is not
SomeReportFails(a) ==
    \/ Given(a.codeql_sarif) /\ ~a.codeql_sarif.parses
    \/ Given(a.semgrep_json) /\ ~a.semgrep_json.parses
    \/ ~Given(a.semgrep_json) /\ Given(a.semgrep_sarif) /\ ~a.semgrep_sarif.parses
    \/ Given(a.gitleaks_sarif) /\ ~a.gitleaks_sarif.parses
    \/ Given(a.depcheck_json) /\ ~a.depcheck_json.parses

\* C4: an invocation one of whose reports fails to parse ends aborted at
\* that step, with the store as it was (not created, nothing appended), and
\* an aborted process does nothing more until it is started afresh.
C4_AbortLeavesStore ==
    [][\A p \in Procs :
         /\ (pc[p] = "parse" /\ SomeReportFails(args[p]) /\ pc'[p] # "parse") =>
               /\ pc'[p] = "aborted"
               /\ store_exists' = store_exists
               /\ store_lines' = store_lines
         /\ (pc[p] = "aborted" /\ pc'[p] # "aborted") =>
               /\ pc'[p] = "parse"
               /\ store_exists' = store_exists
               /\ store_lines' = store_lines
      ]_vars

\* An invocation has aborted beside a well-formed store that holds a row, so
\* not in its scan: on a report that failed to parse.
C4_Witness ==
    \E p \in Procs :
        /\ pc[p] = "aborted"
        /\ WellFormed(store_lines)
        /\ Len(store_lines) >= 2
        /\ \A q \in Procs : q # p => pc[q] = "idle"

IsPrefix(s, t) == Len(s) <= Len(t) /\ \A i \in 1..Len(s) : s[i] = t[i]

\* C5: under serial invocations every step of the engine keeps the store's
\* lines as a prefix of its new lines, every cell included, and never removes
\* the store; and whenever no write is pending an existing store begins with
\* the header and holds no second header.
C5_AppendOnly ==
    [][/\ (\E p \in Procs : pc'[p] # pc[p]) =>
            /\ IsPrefix(store_lines, store_lines')
            /\ store_exists => store_exists'
       /\ (store_exists' /\ \A p \in Procs : pc'[p] # "write") =>
            /\ store_lines' # <<>>
            /\ store_lines'[1] = HeaderRow
            /\ \A i \in 2..Len(store_lines') : store_lines'[i] # HeaderRow
      ]_vars

\* The first row has been triaged and a later invocation has appended a row.
C5_Witness ==
    /\ runs >= 2
    /\ \A p \in Procs : Idle(p)
    /\ Len(store_lines) >= 3
    /\ store_lines[2][Col("triage_status")] = <<"TP">>
    /\ IdNumber(store_lines[Len(store_lines)][1]) = Len(store_lines) - 1

\* One finding of the first tool, then one of the second, with one non-empty
\* category, one file and start lines at most 3 apart
CrossToolPair(fs) ==
    /\ Len(fs) = 2
    /\ fs[1].tool = <<"codeql">>
    /\ fs[2].tool = <<"semgrep">>
    /\ fs[1].cwe_id # <<>>
    /\ fs[1].cwe_id = fs[2].cwe_id
    /\ fs[1].file_path = fs[2].file_path
    /\ fs[1].start_line - fs[2].start_line \in -3..3

\* C9: an invocation whose reports hold such a pair retains both findings
\* under one unique_weakness_id, and its write appends exactly two rows, the
\* first tool's with is_cross_tool_dup False, then the second tool's with
\* True, both with that weakness id.
C9_EndToEndPair ==
    [][\A p \in Procs :
         /\ (pc[p] = "parse" /\ pc'[p] # "parse"
               /\ ~SomeReportFails(args[p])
               /\ CrossToolPair(ParseReports(args[p]).drafts)) =>
              /\ pc'[p] = "scan"
              /\ CrossToolPair(all_findings'[p])
              /\ all_findings'[p][1].unique_weakness_id
                    = all_findings'[p][2].unique_weakness_id
              /\ ~all_findings'[p][1].is_cross_tool_dup
              /\ all_findings'[p][2].is_cross_tool_dup
         /\ (pc[p] = "write" /\ pc'[p] # "write"
               /\ CrossToolPair(all_findings[p])) =>
              LET n  == Len(store_lines')
                  r1 == store_lines'[n - 1]
                  r2 == store_lines'[n]
              IN  /\ n = Len(store_lines) + (IF file_exists[p] THEN 2 ELSE 3)
                  /\ r1[Col("tool")] = <<"codeql">>
                  /\ r2[Col("tool")] = <<"semgrep">>
                  /\ r1[Col("unique_weakness_id")] = r2[Col("unique_weakness_id")]
                  /\ r1[Col("unique_weakness_id")] = FormatId("W", 1)
                  /\ r1[Col("is_cross_tool_dup")] = <<"False">>
                  /\ r2[Col("is_cross_tool_dup")] = <<"True">>
      ]_vars

\* The store holds the two rows of such an invocation.
C9_Witness ==
    /\ Len(store_lines) = 3
    /\ store_lines[1] = HeaderRow
    /\ store_lines[2][Col("tool")] = <<"codeql">>
    /\ store_lines[3][Col("tool")] = <<"semgrep">>
    /\ store_lines[2][Col("unique_weakness_id")]
          = store_lines[3][Col("unique_weakness_id")]
    /\ store_lines[2][Col("is_cross_tool_dup")] = <<"False">>
    /\ store_lines[3][Col("is_cross_tool_dup")] = <<"True">>

\* ------------------------------------------------------ the clusterer alone

CWE89 == <<"CWE", "-", "8", "9">>

ClusterTools == {<<"codeql">>, <<"semgrep">>}
ClusterCwes == {<<>>, CWE89}
\* (file_path, start_line): four lines of one file, and one of another file
ClusterSites == {<<FileA, 10>>, <<FileA, 13>>, <<FileA, 14>>, <<FileA, 16>>,
                 <<FileB, 10>>}

ClusterDrafts ==
    {AddMetadata(Draft(t, <<"r1">>, c, <<"medium">>, site[1], site[2])) :
        t \in ClusterTools, c \in ClusterCwes, site \in ClusterSites}

InitCluster ==
    /\ findings \in BoundedSeq(ClusterDrafts, MaxLen)
    /\ cpc = "dedup"
    /\ deduped = <<>>
    /\ idx = 1
    /\ cl = ClusterInit
    /\ reports = NoArgs
    /\ MainIdle

\* lines 272-279
Dedup ==
    /\ cpc = "dedup"
    /\ deduped' = WithinToolDedup(findings, {}, <<>>)
    /\ cpc' = "cluster"
    /\ UNCHANGED <<findings, idx, cl, reports, mvars>>

\* lines 285-312, one iteration
ClusterLoop ==
    /\ cpc = "cluster"
    /\ idx <= Len(deduped)
    /\ cl' = ClusterStep(cl, deduped[idx])
    /\ idx' = idx + 1
    /\ UNCHANGED <<findings, cpc, deduped, reports, mvars>>

\* line 314
ClusterReturn ==
    /\ cpc = "cluster"
    /\ idx > Len(deduped)
    /\ cpc' = "done"
    /\ UNCHANGED <<findings, deduped, idx, cl, reports, mvars>>

NextCluster == Dedup \/ ClusterLoop \/ ClusterReturn

SpecCluster == InitCluster /\ [][NextCluster]_vars

\* ------------------------------------------------------- the adapters alone

\* result.level of a SARIF result: the four levels of the table, one that is
\* not in it, and none at all
SarifLevels == {<<"error">>, <<"warning">>, <<"note">>, <<"none">>,
                <<"fatal">>, Absent}

\* message.text: without a category, with two, with one in lower case, with
\* one that lacks the dash, and empty
SarifTexts == {<<"Query built from user input">>,
               <<"see ", "CWE", "-", "7", "9", ", ", "CWE", "-", "8", "9">>,
               <<"cwe", "-", "2", "2", " traversal">>,
               <<"CWE", "7", "9">>,
               <<>>}

\* The tags of the rule r1: none, none with a category, one with a category,
\* one with a category that lacks the dash
SarifTagLists == {<<>>,
                  <<<<"security">>>>,
                  <<<<"security">>,
                    <<"external/", "cwe", "/", "cwe", "-", "0", "8", "9">>>>,
                  <<<<"CWE", "7", "9">>>>}

SarifLocations == {<<>>, <<[uri |-> FileA, startLine |-> 10]>>}

SarifResults ==
    [ruleId : {<<"r1">>, Absent}, level : SarifLevels, text : SarifTexts,
     locations : SarifLocations]

\* One run, one rule, one result
SarifReports ==
    {<<[rules |-> <<[id |-> <<"r1">>, tags |-> t]>>, results |-> <<r>>]>> :
        t \in SarifTagLists, r \in SarifResults}

\* extra.severity and extra.metadata.cwe of a result of the JSON report
SemgrepJsonReports ==
    {<<r>> : r \in
        [check_id : {<<"c1">>, Absent},
         severity : {<<"ERROR">>, <<"WARNING">>, <<"INFO">>, <<"CRITICAL">>, Absent},
         cwe : {[list |-> TRUE, v |-> <<>>],
                [list |-> TRUE, v |-> <<<<"CWE", "-", "8", "9", ": SQL Injection">>>>],
                [list |-> TRUE, v |-> <<<<"injection">>>>],
                [list |-> FALSE, v |-> <<"CWE", "-", "7", "9">>]},
         path : {FileA}, line : {12}]}

\* CVSS scores in tenths, 0.0 to 10.0
CvssScores == 0..100

NoCvss == [present |-> FALSE, score |-> 0]

CvssObjects == {NoCvss} \cup {[present |-> TRUE, score |-> x] : x \in CvssScores}

\* One dependency with one vulnerability: every v3 score, every v2 score
\* without a v3 object, and a critical v2 score beside every v3 score
DepcheckReports ==
    {<<[fileName |-> <<"lib.jar">>, vulnerabilities |-> <<v>>]>> :
        v \in {w \in [name : {<<"CVE", "-", "1">>}, cvssv3 : CvssObjects,
                       cvssv2 : CvssObjects,
                       cwes : {<<>>, <<<<"CWE", "-", "7", "9">>>>}] :
                  w.cvssv3.present =>
                      w.cvssv2 \in {NoCvss, [present |-> TRUE, score |-> 95]}}}

\* Three results that differ in rule and place: one location, none, two
SarifResultA == [ruleId |-> <<"r1">>, level |-> <<"error">>,
                 text |-> <<"first">>,
                 locations |-> <<[uri |-> FileA, startLine |-> 10]>>]
SarifResultB == [ruleId |-> <<"r2">>, level |-> <<"note">>,
                 text |-> <<"second">>, locations |-> <<>>]
SarifResultC == [ruleId |-> Absent, level |-> Absent,
                 text |-> <<"third">>,
                 locations |-> <<[uri |-> FileB, startLine |-> 20],
                                 [uri |-> FileA, startLine |-> 10]>>]

\* The results of one run: up to MaxResults of the three
SarifResultLists ==
    BoundedSeq({SarifResultA, SarifResultB, SarifResultC}, MaxResults)

SarifRunOf(results) ==
    [rules |-> <<[id |-> <<"r1">>, tags |-> <<>>]>>, results |-> results]

\* One or two runs, the first with a result
SarifMultiReports ==
    {<<SarifRunOf(r)>> : r \in SarifResultLists \ {<<>>}}
    \cup {<<SarifRunOf(r), SarifRunOf(q)>> :
             r \in SarifResultLists \ {<<>>}, q \in SarifResultLists}

SemgrepJsonResultA ==
    [check_id |-> <<"c1">>, severity |-> <<"ERROR">>,
     cwe |-> [list |-> TRUE, v |-> <<>>], path |-> FileA, line |-> 12]
SemgrepJsonResultB ==
    [check_id |-> <<"c2">>, severity |-> <<"INFO">>,
     cwe |-> [list |-> TRUE, v |-> <<>>], path |-> FileB, line |-> 0]

\* Up to MaxResults results, none included
SemgrepJsonMultiReports ==
    BoundedSeq({SemgrepJsonResultA, SemgrepJsonResultB}, MaxResults)

DepcheckVulnA == [name |-> <<"CVE", "-", "1">>,
                  cvssv3 |-> [present |-> TRUE, score |-> 90],
                  cvssv2 |-> NoCvss, cwes |-> <<>>]
DepcheckVulnB == [name |-> <<"CVE", "-", "2">>, cvssv3 |-> NoCvss,
                  cvssv2 |-> NoCvss, cwes |-> <<>>]

DepcheckVulnLists == BoundedSeq({DepcheckVulnA, DepcheckVulnB}, MaxResults)

\* One or two dependencies, the first with a vulnerability
DepcheckMultiReports ==
    {<<[fileName |-> <<"lib.jar">>, vulnerabilities |-> v]>> :
        v \in DepcheckVulnLists \ {<<>>}}
    \cup {<<[fileName |-> <<"lib.jar">>, vulnerabilities |-> v],
            [fileName |-> <<"other.jar">>, vulnerabilities |-> w]>> :
             v \in DepcheckVulnLists \ {<<>>}, w \in DepcheckVulnLists}

\* One report of one tool
AdapterArgs ==
    {[NoArgs EXCEPT !.codeql_sarif = Report(c)] :
        c \in SarifReports \cup SarifMultiReports}
    \cup {[NoArgs EXCEPT !.semgrep_sarif = Report(c)] :
        c \in SarifReports \cup SarifMultiReports}
    \cup {[NoArgs EXCEPT !.gitleaks_sarif = Report(c)] :
        c \in SarifReports \cup SarifMultiReports}
    \cup {[NoArgs EXCEPT !.semgrep_json = Report(c)] :
        c \in SemgrepJsonReports \cup SemgrepJsonMultiReports}
    \cup {[NoArgs EXCEPT !.depcheck_json = Report(c)] :
        c \in DepcheckReports \cup DepcheckMultiReports}

InitAdapters ==
    /\ reports \in AdapterArgs
    /\ findings = <<>>
    /\ cpc = "adapt"
    /\ deduped = <<>>
    /\ idx = 1
    /\ cl = ClusterInit
    /\ MainIdle

\* Lines 334-375: the adapter of each report given, then the metadata
Adapt ==
    /\ cpc = "adapt"
    /\ LET r == ParseReports(reports)
       IN  /\ ~r.raised
           /\ findings' = [i \in 1..Len(r.drafts) |-> AddMetadata(r.drafts[i])]
    /\ cpc' = "dedup"
    /\ UNCHANGED <<deduped, idx, cl, reports, mvars>>

NextAdapters == Adapt \/ Dedup \/ ClusterLoop \/ ClusterReturn

SpecAdapters == InitAdapters /\ [][NextAdapters]_vars

\* The two report arguments of the second tool, each unset, naming no file,
\* or a report; no report of another tool
FormatBArgs ==
    {[NoArgs EXCEPT !.semgrep_json = j, !.semgrep_sarif = f] :
        j \in {Unset, Missing} \cup {Report(c) : c \in SemgrepJsonMultiReports},
        f \in {Unset, Missing} \cup {Report(c) : c \in SarifMultiReports}}

InitFormatB ==
    /\ reports \in FormatBArgs
    /\ findings = <<>>
    /\ cpc = "adapt"
    /\ deduped = <<>>
    /\ idx = 1
    /\ cl = ClusterInit
    /\ MainIdle

\* The adapters and the clusterer on the second tool's two arguments
SpecFormatB == InitFormatB /\ [][NextAdapters]_vars

\* Results whose ruleId or uri holds the character "|": SARIF puts no limit
\* on either string
SeparatorResults ==
    [ruleId : {<<"a">>, <<"a", "|", "b">>}, level : {<<"error">>},
     text : {<<"first">>},
     locations : {<<[uri |-> u, startLine |-> 10]>> :
                     u \in {<<"c">>, <<"b", "|", "c">>}}]

\* One SARIF report of the first or of the second tool, one run of up to
\* MaxLen such results
SeparatorArgs ==
    {[NoArgs EXCEPT !.codeql_sarif = Report(<<SarifRunOf(r)>>)] :
        r \in BoundedSeq(SeparatorResults, MaxLen) \ {<<>>}}
    \cup {[NoArgs EXCEPT !.semgrep_sarif = Report(<<SarifRunOf(r)>>)] :
        r \in BoundedSeq(SeparatorResults, MaxLen) \ {<<>>}}

InitSeparator ==
    /\ reports \in SeparatorArgs
    /\ findings = <<>>
    /\ cpc = "adapt"
    /\ deduped = <<>>
    /\ idx = 1
    /\ cl = ClusterInit
    /\ MainIdle

\* The adapters and the clusterer on these reports
SpecSeparator == InitSeparator /\ [][NextAdapters]_vars


\* ------------------------------------------------- claims on the clusterer

LinesOf(fs) == [i \in 1..Len(fs) |-> fs[i].start_line]

\* all of one file and one non-empty category
SameSite(fs) ==
    \A i \in 1..Len(fs) :
        /\ fs[i].cwe_id # <<>>
        /\ fs[i].cwe_id = fs[1].cwe_id
        /\ fs[i].file_path = fs[1].file_path

ClustererDoneOn(lines) ==
    cpc = "done" /\ LinesOf(deduped) = lines /\ SameSite(deduped)

\* C6 as claimed: same category, same file, order [10, 13, 16] gives exactly
\* one cluster, the finding at line 16 joining the cluster opened at line 10.
C6_AscendingChainOneCluster ==
    ClustererDoneOn(<<10, 13, 16>>) =>
        /\ cl.weakness_counter = 1
        /\ cl.out[3].unique_weakness_id = cl.out[1].unique_weakness_id

\* C6 amended: order [10, 13, 16] gives exactly two clusters. The finding at
\* line 13 joins the cluster opened at line 10, whose anchor stays min(10, 13)
\* = 10; the finding at line 16 is 6 lines from that anchor and opens W-002.
C6_AscendingChainTwoClusters ==
    ClustererDoneOn(<<10, 13, 16>>) =>
        /\ cl.weakness_counter = 2
        /\ Len(cl.weakness_map) = 2
        /\ cl.weakness_map[1].line = 10
        /\ cl.out[2].unique_weakness_id = cl.out[1].unique_weakness_id
        /\ cl.out[2].is_cross_tool_dup
        /\ cl.out[3].unique_weakness_id = FormatId("W", 2)
        /\ ~cl.out[3].is_cross_tool_dup

C6_Witness == ClustererDoneOn(<<10, 13, 16>>) /\ cl.weakness_counter = 2

\* The clusters a finding may join under the stated rule: same non-empty
\* category, same file, current anchor within 3 lines
Qualifying(wmap, f) ==
    {k \in 1..Len(wmap) :
        /\ f.cwe_id # <<>>
        /\ wmap[k].cwe = f.cwe_id
        /\ wmap[k].file = f.file_path
        /\ f.start_line - wmap[k].line \in -3..3}

\* C7: every step of the clustering pass sends its finding to the
\* earliest-created qualifying cluster, whichever cluster is closest, or, when
\* none qualifies, opens a cluster anchored at the finding's own start_line
\* with the next weakness id; and the order [10, 16] ends with 2 clusters.
C7_JoinRule ==
    [][(cpc = "cluster" /\ idx' = idx + 1) =>
        LET f == deduped[idx]
            q == Qualifying(cl.weakness_map, f)
            r == cl'.out[idx]
        IN  /\ Len(cl'.out) = idx
            /\ IF q # {}
               THEN \E k \in q :
                      /\ \A j \in q : k <= j
                      /\ r.unique_weakness_id = cl.weakness_map[k].weakness_id
                      /\ Len(cl'.weakness_map) = Len(cl.weakness_map)
               ELSE /\ Len(cl'.weakness_map) = Len(cl.weakness_map) + 1
                    /\ cl'.weakness_map[Len(cl'.weakness_map)].line = f.start_line
                    /\ cl'.weakness_map[Len(cl'.weakness_map)].weakness_id
                           = r.unique_weakness_id
                    /\ \A k \in 1..Len(cl.weakness_map) :
                           cl.weakness_map[k].weakness_id # r.unique_weakness_id
                    /\ ~r.is_cross_tool_dup
            /\ (LinesOf(deduped) = <<10, 16>> /\ SameSite(deduped) /\ idx = 2)
                  => Len(cl'.weakness_map) = 2
      ]_vars

\* The finding at line 13 joined the cluster anchored at 10 although the
\* cluster anchored at 14, created later, is closer.
C7_Witness ==
    /\ ClustererDoneOn(<<10, 14, 13>>)
    /\ Len(cl.weakness_map) = 2
    /\ cl.out[3].unique_weakness_id = cl.out[1].unique_weakness_id
    /\ cl.out[3].unique_weakness_id # cl.out[2].unique_weakness_id

Reverse(s) == [i \in 1..Len(s) |-> s[Len(s) + 1 - i]]

\* C8: the pass over the order [16, 13, 10] ends with a number of clusters
\* different from the one the same findings give in the order [10, 13, 16].
C8_OrderDependent ==
    ClustererDoneOn(<<16, 13, 10>>) =>
        cl.weakness_counter
            # ClusterAll(ClusterInit, Reverse(deduped)).weakness_counter

C8_Witness ==
    /\ ClustererDoneOn(<<16, 13, 10>>)
    /\ cl.weakness_counter = 1
    /\ ClusterAll(ClusterInit, Reverse(deduped)).weakness_counter = 2

\* C10: at every point of the pass, the records enriched so far that share a
\* unique_weakness_id have exactly one record with is_cross_tool_dup = false,
\* which comes before every other one; and when the pass ends every retained
\* record carries one weakness id of W-001 .. W-k, k the number of clusters.
C10_OneOpenerPerCluster ==
    /\ \A i \in 1..Len(cl.out) :
          cl.out[i].is_cross_tool_dup
              <=> \E j \in 1..(i - 1) :
                     cl.out[j].unique_weakness_id = cl.out[i].unique_weakness_id
    /\ cpc = "done" =>
          /\ Len(cl.out) = Len(deduped)
          /\ \A i \in 1..Len(cl.out) :
                \E k \in 1..cl.weakness_counter :
                    cl.out[i].unique_weakness_id = FormatId("W", k)

\* a cluster of three members and a second cluster
C10_Witness ==
    /\ cpc = "done"
    /\ Len(cl.out) = 3
    /\ cl.out[2].is_cross_tool_dup
    /\ ~cl.out[3].is_cross_tool_dup

\* C11 as claimed: every record marked is_cross_tool_dup = true comes after a
\* record of its own cluster that a different tool produced. The join of
\* lines 297-301 never looks at the tool: a second finding of one tool, a line
\* below the first and of the same category, is marked as well.
C11_DupHasEarlierOtherTool ==
    \A i \in 1..Len(cl.out) :
        cl.out[i].is_cross_tool_dup =>
            \E j \in 1..(i - 1) :
                /\ cl.out[j].unique_weakness_id = cl.out[i].unique_weakness_id
                /\ cl.out[j].tool # cl.out[i].tool

\* C12: at every point of the pass a record with an empty category is not
\* marked is_cross_tool_dup and shares its unique_weakness_id with no other
\* record, earlier or later, whatever the files and lines are.
C12_EmptyCategoryAlone ==
    \A i \in 1..Len(cl.out) :
        cl.out[i].cwe_id = <<>> =>
            /\ ~cl.out[i].is_cross_tool_dup
            /\ \A j \in 1..Len(cl.out) :
                   j # i => cl.out[j].unique_weakness_id
                               # cl.out[i].unique_weakness_id

\* Two records without a category at one line of one file, then a record
\* with a category a line below: three clusters.
C12_Witness ==
    /\ cpc = "done"
    /\ Len(cl.out) = 3
    /\ cl.out[1].cwe_id = <<>>
    /\ cl.out[2].cwe_id = <<>>
    /\ cl.out[3].cwe_id # <<>>
    /\ cl.out[1].file_path = cl.out[2].file_path
    /\ cl.out[1].start_line = cl.out[2].start_line
    /\ cl.out[3].file_path = cl.out[1].file_path
    /\ cl.out[3].start_line = cl.out[1].start_line + 1
    /\ cl.weakness_counter = 3

\* The index in fs of the first record with the key of f
FirstWithKey(fs, f) ==
    CHOOSE i \in 1..Len(fs) :
        /\ DedupKey(fs[i]) = DedupKey(f)
        /\ \A j \in 1..(i - 1) : DedupKey(fs[j]) # DedupKey(f)

\* C13: once step 1 has run, the retained list holds one record for every
\* (tool, rule_id, file_path, start_line) key of the input and no key twice;
\* each retained record is the first input record with its key, every other
\* field included; the retained records stand in their arrival order; and
\* step 1 gives the same list on the retained list and on the input fed twice.
C13_WithinToolDedup ==
    cpc # "dedup" =>
        /\ \A i \in 1..Len(findings) :
              \E k \in 1..Len(deduped) : DedupKey(deduped[k]) = DedupKey(findings[i])
        /\ \A k, m \in 1..Len(deduped) :
              k # m => DedupKey(deduped[k]) # DedupKey(deduped[m])
        /\ \A k \in 1..Len(deduped) :
              /\ \E i \in 1..Len(findings) : DedupKey(findings[i]) = DedupKey(deduped[k])
              /\ deduped[k] = findings[FirstWithKey(findings, deduped[k])]
        /\ \A k, m \in 1..Len(deduped) :
              k < m => FirstWithKey(findings, deduped[k])
                          < FirstWithKey(findings, deduped[m])
        /\ WithinToolDedup(deduped, {}, <<>>) = deduped
        /\ WithinToolDedup(findings \o findings, {}, <<>>) = deduped

\* The third draft repeats the key of the first with another category, and
\* the first and the second are retained.
C13_Witness ==
    /\ cpc # "dedup"
    /\ Len(findings) = 3
    /\ DedupKey(findings[3]) = DedupKey(findings[1])
    /\ findings[3] # findings[1]
    /\ DedupKey(findings[2]) # DedupKey(findings[1])
    /\ deduped = <<findings[1], findings[2]>>

\* The weakness ids of one invocation: a record that opens a cluster carries
\* W-(n+1), n the clusters opened before it; any other record carries the
\* id of an earlier record
LocalWeaknessIds(fs) ==
    \A i \in 1..Len(fs) :
        LET openers == {j \in 1..(i - 1) : ~fs[j].is_cross_tool_dup}
        IN  IF fs[i].is_cross_tool_dup
            THEN \E j \in 1..(i - 1) :
                    fs[j].unique_weakness_id = fs[i].unique_weakness_id
            ELSE fs[i].unique_weakness_id = FormatId("W", Cardinality(openers) + 1)

\* C14: under serial invocations, whatever the store holds, the clusterer
\* step of an invocation numbers its clusters W-001 .. W-k in the order it
\* opens them and leaves the store alone; and the write that follows puts
\* these ids in the rows it appends, the first of them W-001 even when a row
\* of the store carries W-001 already.
C14_WeaknessIdsLocal ==
    [][\A p \in Procs :
         /\ (pc[p] = "parse" /\ pc'[p] = "scan") =>
               /\ LocalWeaknessIds(all_findings'[p])
               /\ store_lines' = store_lines
         /\ (pc[p] = "write" /\ pc'[p] = "exit") =>
               LET n == Len(all_findings[p])
                   m == Len(store_lines')
               IN  /\ m >= Len(store_lines) + n
                   /\ \A i \in 1..n :
                         store_lines'[m - n + i][Col("unique_weakness_id")]
                             = all_findings[p][i].unique_weakness_id
                   /\ n > 0 =>
                         store_lines'[m - n + 1][Col("unique_weakness_id")]
                             = FormatId("W", 1)
      ]_vars

\* One invocation wrote the clusters W-001 (two rows) and W-002, and a later
\* one wrote a row that opens W-001 again.
C14_Witness ==
    /\ \A p \in Procs : Idle(p)
    /\ Len(store_lines) = 5
    /\ store_lines[2][Col("unique_weakness_id")] = FormatId("W", 1)
    /\ store_lines[3][Col("unique_weakness_id")] = FormatId("W", 1)
    /\ store_lines[3][Col("is_cross_tool_dup")] = <<"True">>
    /\ store_lines[4][Col("unique_weakness_id")] = FormatId("W", 2)
    /\ store_lines[5][Col("unique_weakness_id")] = FormatId("W", 1)
    /\ store_lines[5][Col("is_cross_tool_dup")] = <<"False">>

\* A report argument that is not supplied or names no file
Skipped(r) == r.path \in {"unset", "missing"}

\* The results of a SARIF report, over all its runs
RECURSIVE SarifResultCount(_)
SarifResultCount(sarif) ==
    IF sarif = <<>> THEN 0
    ELSE Len(Head(sarif).results) + SarifResultCount(Tail(sarif))

ToolCount(fs, t) == Cardinality({i \in 1..Len(fs) : fs[i].tool = <<t>>})

\* C15: under serial invocations, when every report argument is either
\* skipped (not supplied, or naming no file) or a report that parses, the
\* parse step does not abort, a skipped tool has no record and every other
\* tool has one record per result of its report; the scan then numbers all
\* of them and the write appends one row for each.
C15_SkippedReportsDoNotRaise ==
    [][\A p \in Procs :
         /\ (pc[p] = "parse" /\ pc'[p] # "parse"
                /\ \A k \in DOMAIN args[p] :
                      Skipped(args[p][k]) \/ args[p][k].parses) =>
              LET a  == args[p]
                  fs == all_findings'[p]
              IN  /\ pc'[p] = "scan"
                  /\ ToolCount(fs, "codeql") =
                        (IF Skipped(a.codeql_sarif) THEN 0
                         ELSE SarifResultCount(a.codeql_sarif.content))
                  /\ ToolCount(fs, "semgrep") =
                        (IF ~Skipped(a.semgrep_json)
                         THEN Len(a.semgrep_json.content)
                         ELSE IF ~Skipped(a.semgrep_sarif)
                         THEN SarifResultCount(a.semgrep_sarif.content)
                         ELSE 0)
                  /\ ToolCount(fs, "gitleaks") =
                        (IF Skipped(a.gitleaks_sarif) THEN 0
                         ELSE SarifResultCount(a.gitleaks_sarif.content))
                  /\ ToolCount(fs, "depcheck") = 0
                  /\ \A i \in 1..Len(fs) :
                        "unique_weakness_id" \in DOMAIN fs[i]
         /\ (pc[p] = "scan" /\ pc'[p] # "scan") =>
              /\ pc'[p] = "check"
              /\ Len(all_findings'[p]) = Len(all_findings[p])
              /\ \A i \in 1..Len(all_findings'[p]) :
                    IsIdCell(all_findings'[p][i].finding_id)
         /\ (pc[p] = "write" /\ pc'[p] # "write") =>
              LET n == Len(all_findings[p])
                  m == Len(store_lines')
              IN  /\ m = Len(store_lines) + n + (IF file_exists[p] THEN 0 ELSE 1)
                  /\ \A i \in 1..n :
                        /\ store_lines'[m - n + i][Col("tool")]
                              = all_findings[p][i].tool
                        /\ store_lines'[m - n + i][Col("finding_id")]
                              = all_findings[p][i].finding_id
      ]_vars

\* The only invocation so far has ended and the store holds the first
\* tool's row alone: the second tool's report was not supplied or named no
\* file, and no report of the other tools was given.
C15_Witness ==
    /\ runs = 1
    /\ \E p \in Procs : pc[p] = "done"
    /\ Len(store_lines) = 2
    /\ store_lines[1] = HeaderRow
    /\ store_lines[2][Col("tool")] = <<"codeql">>
    /\ store_lines[2][Col("finding_id")] = FormatId("F", 1)

\* C16: under serial invocations, an invocation whose reports hold no result
\* goes through every step without aborting and with no record; no step of it
\* changes the lines of a store that existed when it checked, its write gives
\* a store that did not exist the header as its only line, and the summary it
\* prints reports 0 total findings, 0 unique weaknesses, 0 cross-tool overlaps.
C16_EmptyResult ==
    [][\A p \in Procs :
         /\ (pc[p] = "parse" /\ pc'[p] # "parse"
                /\ ~SomeReportFails(args[p])
                /\ ParseReports(args[p]).drafts = <<>>) =>
              /\ pc'[p] = "scan"
              /\ all_findings'[p] = <<>>
         /\ (pc[p] \in {"scan", "check", "open"} /\ pc'[p] # pc[p]
                /\ all_findings[p] = <<>>) =>
              /\ pc'[p] \in {"check", "open", "write"}
              /\ all_findings'[p] = <<>>
              /\ store_lines' = store_lines
         /\ (pc[p] = "write" /\ pc'[p] # "write" /\ all_findings[p] = <<>>) =>
              /\ pc'[p] = "exit"
              /\ store_exists'
              /\ store_lines' =
                    (IF file_exists[p] THEN store_lines ELSE <<HeaderRow>>)
              /\ summary'[p] = [printed |-> TRUE, total |-> 0,
                                unique_weaknesses |-> 0, cross_tool |-> 0]
      ]_vars

\* A second invocation found nothing and printed its summary beside the rows
\* the first one wrote.
C16_Witness ==
    \E p \in Procs :
        /\ runs = 2
        /\ pc[p] = "exit"
        /\ summary[p].printed
        /\ summary[p].total = 0
        /\ Len(store_lines) >= 2
        /\ store_lines[1] = HeaderRow

\* C17: of the drafts handed to the clusterer, two with equal tool, rule_id,
\* file_path and start_line carry the same fingerprint whatever their other
\* fields, and two of different tools carry different fingerprints (the
\* hashed strings differ), also at one rule_id, file and line; the pass hands
\* every fingerprint on unchanged.
C17_FingerprintOfKey ==
    /\ \A i, j \in 1..Len(findings) :
          /\ DedupKey(findings[i]) = DedupKey(findings[j])
                => findings[i].fingerprint = findings[j].fingerprint
          /\ findings[i].tool # findings[j].tool
                => findings[i].fingerprint # findings[j].fingerprint
    /\ \A i \in 1..Len(cl.out) : cl.out[i].fingerprint = deduped[i].fingerprint

\* Two drafts of different tools with one rule_id, file and line, and a
\* third with the key of the first and another category; clustering is over.
C17_Witness ==
    /\ cpc = "done"
    /\ Len(findings) = 3
    /\ findings[1].tool # findings[2].tool
    /\ findings[1].rule_id = findings[2].rule_id
    /\ findings[1].file_path = findings[2].file_path
    /\ findings[1].start_line = findings[2].start_line
    /\ DedupKey(findings[3]) = DedupKey(findings[1])
    /\ findings[3].cwe_id # findings[1].cwe_id
    /\ findings[3].fingerprint = findings[1].fingerprint
    /\ findings[2].fingerprint # findings[1].fingerprint

\* ---------------------------------------------------- claims on the adapters

\* The tags of the rule a SARIF result names, as the adapters look them up
TagsOf(sarif) ==
    RuleTags(sarif[1].rules, Get(sarif[1].results[1].ruleId, <<"unknown">>))

\* No tag holds cwe-?<digits>
NoTagMatch(tags) == \A i \in 1..Len(tags) : SearchCwe(tags[i], FALSE) = <<>>

\* C18 as claimed: the draft of a SARIF result whose rule has no tag with a
\* category carries the category of the first CWE-<digits> of the message
\* text (none when the text has none), for the first tool's SARIF report and
\* for the second tool's SARIF fallback alike. The fallback adapter (lines
\* 188-189) never reads the text.
C18_TextFallbackEverySarif ==
    cpc # "adapt" =>
        \A k \in {"codeql_sarif", "semgrep_sarif"} :
            (Given(reports[k]) /\ NoTagMatch(TagsOf(reports[k].content))) =>
                findings[1].cwe_id =
                    extract_cwe_from_text(reports[k].content[1].results[1].text)

Severities == {<<"critical">>, <<"high">>, <<"medium">>, <<"low">>, <<"info">>}

\* C19: the draft of a SARIF result of the first tool, or of the second
\* tool's SARIF fallback, has severity high for level error, medium for
\* warning, low for note, info for none, and medium for any other level and
\* for a result without a level; and every draft of every adapter has one of
\* the five severities.
C19_SeverityTable ==
    cpc # "adapt" =>
        /\ \A k \in {"codeql_sarif", "semgrep_sarif"} :
              Given(reports[k]) =>
                  LET level == reports[k].content[1].results[1].level
                  IN  findings[1].severity =
                         (IF level = <<"error">> THEN <<"high">>
                          ELSE IF level = <<"note">> THEN <<"low">>
                          ELSE IF level = <<"none">> THEN <<"info">>
                          ELSE <<"medium">>)
        /\ \A i \in 1..Len(findings) : findings[i].severity \in Severities

\* A result of the first tool with a level the table lacks has come out with
\* severity medium.
C19_Witness ==
    /\ cpc = "done"
    /\ Given(reports.codeql_sarif)
    /\ reports.codeql_sarif.content[1].results[1].level = <<"fatal">>
    /\ cl.out[1].severity = <<"medium">>

\* The severity the thresholds give a score in tenths
CvssBand(x) ==
    CASE x \in 90..100 -> <<"critical">>
      [] x \in 70..89  -> <<"high">>
      [] x \in 40..69  -> <<"medium">>
      [] x \in 0..39   -> <<"low">>

\* C20: the draft of a dependency vulnerability has the severity of its v3
\* score, of its v2 score when it has no v3 object, and low when it has
\* neither: critical from 9.0 on, high from 7.0 to 8.9, medium from 4.0 to
\* 6.9, low below 4.0, for every score from 0.0 to 10.0 in tenths.
C20_CvssThresholds ==
    (cpc # "adapt" /\ Given(reports.depcheck_json)) =>
        LET v == reports.depcheck_json.content[1].vulnerabilities[1]
        IN  /\ findings[1].tool = <<"depcheck">>
            /\ findings[1].severity =
                  (IF v.cvssv3.present THEN CvssBand(v.cvssv3.score)
                   ELSE IF v.cvssv2.present THEN CvssBand(v.cvssv2.score)
                   ELSE <<"low">>)
            /\ (v.cvssv3.present /\ v.cvssv3.score = 90)
                  => findings[1].severity = <<"critical">>
            /\ (v.cvssv3.present /\ v.cvssv3.score = 70)
                  => findings[1].severity = <<"high">>
            /\ (v.cvssv3.present /\ v.cvssv3.score = 40)
                  => findings[1].severity = <<"medium">>
            /\ (v.cvssv3.present /\ v.cvssv3.score = 39)
                  => findings[1].severity = <<"low">>

\* A vulnerability with the v3 score 9.0 and no v2 object has come out
\* critical.
C20_Witness ==
    /\ cpc = "done"
    /\ Given(reports.depcheck_json)
    /\ reports.depcheck_json.content[1].vulnerabilities[1].cvssv3
          = [present |-> TRUE, score |-> 90]
    /\ ~reports.depcheck_json.content[1].vulnerabilities[1].cvssv2.present
    /\ cl.out[1].severity = <<"critical">>

\* C21: every draft of the secret-scan adapter has severity high and
\* category CWE-798, whatever the rule id, the level, the tags of the rule
\* and the message text of the result are.
C21_SecretScanOverride ==
    (cpc # "adapt" /\ Given(reports.gitleaks_sarif)) =>
        /\ Len(findings) = SarifResultCount(reports.gitleaks_sarif.content)
        /\ \A i \in 1..Len(findings) :
              /\ findings[i].tool = <<"gitleaks">>
              /\ findings[i].severity = <<"high">>
              /\ findings[i].cwe_id = <<"CWE", "-", "7", "9", "8">>

\* A secret-scan result of level note, whose rule is tagged with CWE-089 and
\* whose text names CWE-79, has come out high with CWE-798.
C21_Witness ==
    /\ cpc = "done"
    /\ Given(reports.gitleaks_sarif)
    /\ reports.gitleaks_sarif.content[1].results[1].level = <<"note">>
    /\ reports.gitleaks_sarif.content[1].results[1].ruleId = <<"r1">>
    /\ extract_cwe_from_tags(TagsOf(reports.gitleaks_sarif.content))
          = <<"CWE", "-", "0", "8", "9">>
    /\ extract_cwe_from_text(reports.gitleaks_sarif.content[1].results[1].text)
          = <<"CWE", "-", "7", "9">>
    /\ cl.out[1].severity = <<"high">>
    /\ cl.out[1].cwe_id = <<"CWE", "-", "7", "9", "8">>

\* The results of a SARIF report in report order: run after run
RECURSIVE SarifResultsInOrder(_)
SarifResultsInOrder(sarif) ==
    IF sarif = <<>> THEN <<>>
    ELSE Head(sarif).results \o SarifResultsInOrder(Tail(sarif))

\* The vulnerabilities of a dependency report in report order, each with
\* the file name of its dependency
RECURSIVE VulnsInOrder(_)
VulnsInOrder(data) ==
    IF data = <<>> THEN <<>>
    ELSE [i \in 1..Len(Head(data).vulnerabilities) |->
             [fileName |-> Head(data).fileName,
              name |-> Head(data).vulnerabilities[i].name]]
         \o VulnsInOrder(Tail(data))

\* C22: the drafts of an adapter are as many as the results of its report
\* (over all runs, or the vulnerabilities over all dependencies), and the
\* i-th draft is that of the i-th result in report order: it carries its
\* rule id, and the place of its first location, or an empty file_path and
\* start_line 0 when the result has no location.
C22_OneDraftPerResult ==
    cpc # "adapt" =>
        /\ \A k \in {"codeql_sarif", "semgrep_sarif", "gitleaks_sarif"} :
              Given(reports[k]) =>
                  LET rs == SarifResultsInOrder(reports[k].content)
                  IN  /\ Len(findings) = Len(rs)
                      /\ \A i \in 1..Len(rs) :
                            /\ findings[i].rule_id
                                  = (IF rs[i].ruleId = Absent THEN <<"unknown">>
                                     ELSE rs[i].ruleId)
                            /\ IF rs[i].locations = <<>>
                               THEN /\ findings[i].file_path = <<>>
                                    /\ findings[i].start_line = 0
                               ELSE /\ findings[i].file_path
                                         = rs[i].locations[1].uri
                                    /\ findings[i].start_line
                                         = rs[i].locations[1].startLine
        /\ Given(reports.semgrep_json) =>
              LET rs == reports.semgrep_json.content
              IN  /\ Len(findings) = Len(rs)
                  /\ \A i \in 1..Len(rs) :
                        /\ findings[i].rule_id
                              = (IF rs[i].check_id = Absent THEN <<"unknown">>
                                 ELSE rs[i].check_id)
                        /\ findings[i].file_path = rs[i].path
                        /\ findings[i].start_line = rs[i].line
        /\ Given(reports.depcheck_json) =>
              LET vs == VulnsInOrder(reports.depcheck_json.content)
              IN  /\ Len(findings) = Len(vs)
                  /\ \A i \in 1..Len(vs) :
                        /\ findings[i].rule_id = vs[i].name
                        /\ findings[i].file_path = vs[i].fileName
                        /\ findings[i].start_line = 0

\* A report of the first tool with two runs of two results each, the second
\* result without a location, has given four drafts, the second with an
\* empty file_path and start_line 0.
C22_Witness ==
    /\ cpc # "adapt"
    /\ Given(reports.codeql_sarif)
    /\ Len(reports.codeql_sarif.content) = 2
    /\ Len(reports.codeql_sarif.content[1].results) = 2
    /\ Len(reports.codeql_sarif.content[2].results) = 2
    /\ reports.codeql_sarif.content[1].results[2].locations = <<>>
    /\ Len(findings) = 4
    /\ findings[2].file_path = <<>>
    /\ findings[2].start_line = 0
    /\ findings[1].file_path = FileA

\* The start lines of the findings enriched so far that carry weakness id w
MemberLines(out, w) ==
    {out[i].start_line : i \in {j \in 1..Len(out) : out[j].unique_weakness_id = w}}

\* C23: after every step of the clustering pass the line anchor of each
\* cluster is the least start_line of the findings that opened or joined it
\* so far; and a step leaves the category, the file and the weakness id of
\* every cluster as they were and its anchor where it was or lower.
C23_AnchorIsMinimum ==
    [][/\ \A k \in 1..Len(cl'.weakness_map) :
             LET ls == MemberLines(cl'.out, cl'.weakness_map[k].weakness_id)
             IN  /\ cl'.weakness_map[k].line \in ls
                 /\ \A x \in ls : cl'.weakness_map[k].line <= x
       /\ Len(cl'.weakness_map) >= Len(cl.weakness_map)
       /\ \A k \in 1..Len(cl.weakness_map) :
             /\ cl'.weakness_map[k].line <= cl.weakness_map[k].line
             /\ cl'.weakness_map[k].cwe = cl.weakness_map[k].cwe
             /\ cl'.weakness_map[k].file = cl.weakness_map[k].file
             /\ cl'.weakness_map[k].weakness_id = cl.weakness_map[k].weakness_id
      ]_vars

\* The cluster opened at line 13 has its anchor at 10 since the finding at
\* line 10 joined it, and the finding at line 14 has opened a second one.
C23_Witness ==
    /\ ClustererDoneOn(<<13, 10, 14>>)
    /\ Len(cl.weakness_map) = 2
    /\ cl.weakness_map[1].line = 10
    /\ cl.weakness_map[2].line = 14

\* The rule ids of a list of drafts, "unknown" for a result without one
RuleIds(ids) == [i \in 1..Len(ids) |->
                    IF ids[i] = Absent THEN <<"unknown">> ELSE ids[i]]

\* C24: when the JSON report of the second tool is supplied and its file
\* exists, the drafts are those of its results and of nothing else, whether
\* the SARIF fallback is supplied or not and also when the JSON report holds
\* no result; the drafts are those of the SARIF fallback only when it is
\* supplied and exists and the JSON path is unset or names no file; with
\* neither, there is no draft.
C24_OneFormatBAdapter ==
    cpc # "adapt" =>
        LET j   == reports.semgrep_json
            f   == reports.semgrep_sarif
            ids == [i \in 1..Len(findings) |-> findings[i].rule_id]
        IN  /\ \A i \in 1..Len(findings) : findings[i].tool = <<"semgrep">>
            /\ j.path = "exists" =>
                  ids = RuleIds([i \in 1..Len(j.content) |-> j.content[i].check_id])
            /\ (j.path # "exists" /\ f.path = "exists") =>
                  LET rs == SarifResultsInOrder(f.content)
                  IN  ids = RuleIds([i \in 1..Len(rs) |-> rs[i].ruleId])
            /\ (j.path # "exists" /\ f.path # "exists") => findings = <<>>

\* Both reports were supplied, the JSON report with one result and the SARIF
\* fallback with two, and the one draft is the JSON result's.
C24_Witness ==
    /\ cpc = "done"
    /\ reports.semgrep_json.path = "exists"
    /\ reports.semgrep_sarif.path = "exists"
    /\ Len(reports.semgrep_json.content) = 1
    /\ Len(SarifResultsInOrder(reports.semgrep_sarif.content)) = 2
    /\ Len(findings) = 1
    /\ findings[1].rule_id = reports.semgrep_json.content[1].check_id

\* C25: the summary an invocation has printed gives as total findings the
\* number of its retained records, as unique weaknesses the number of the
\* clusters it opened (of its records that are not marked is_cross_tool_dup),
\* as cross-tool overlaps the number of its marked records, and the total is
\* the sum of the other two.
C25_SummaryAddsUp ==
    \A p \in Procs :
        summary[p].printed =>
            LET fs == all_findings[p]
                opened == {i \in 1..Len(fs) : ~fs[i].is_cross_tool_dup}
                ids == {fs[i].unique_weakness_id : i \in 1..Len(fs)}
            IN  /\ pc[p] = "exit"
                /\ summary[p].total = Len(fs)
                /\ summary[p].unique_weaknesses = Cardinality(ids)
                /\ summary[p].unique_weaknesses = Cardinality(opened)
                /\ summary[p].cross_tool = Len(fs) - Cardinality(opened)
                /\ summary[p].total
                      = summary[p].unique_weaknesses + summary[p].cross_tool

\* An invocation has printed 3 total findings, 2 unique weaknesses and 1
\* cross-tool overlap.
C25_Witness ==
    \E p \in Procs :
        /\ pc[p] = "exit"
        /\ summary[p] = [printed |-> TRUE, total |-> 3,
                         unique_weaknesses |-> 2, cross_tool |-> 1]

\* C26: at every point of the pass no record lies more than 3 lines above
\* the record that opened its cluster; the order [16, 13, 10] ends in one
\* cluster whose first and last members are 6 lines apart, and a further
\* finding at line 7 of that file and category would join it too, moving
\* the anchor to 7.
C26_MembersBelowOpener ==
    /\ \A i, j \in 1..Len(cl.out) :
          (/\ ~cl.out[i].is_cross_tool_dup
           /\ cl.out[j].unique_weakness_id = cl.out[i].unique_weakness_id)
              => cl.out[j].start_line <= cl.out[i].start_line + 3
    /\ ClustererDoneOn(<<16, 13, 10>>) =>
          LET next == ClusterStep(cl, [deduped[3] EXCEPT !.start_line = 7])
          IN  /\ cl.weakness_counter = 1
              /\ cl.out[3].unique_weakness_id = cl.out[1].unique_weakness_id
              /\ cl.out[1].start_line - cl.out[3].start_line > 3
              /\ next.weakness_counter = 1
              /\ next.out[4].unique_weakness_id = cl.out[1].unique_weakness_id
              /\ next.weakness_map[1].line = 7

\* The findings at lines 16, 13 and 10 are in one cluster, the last 6 lines
\* below the opener.
C26_Witness ==
    /\ ClustererDoneOn(<<16, 13, 10>>)
    /\ ~cl.out[1].is_cross_tool_dup
    /\ cl.out[2].is_cross_tool_dup
    /\ cl.out[3].is_cross_tool_dup
    /\ cl.out[1].start_line - cl.out[3].start_line = 6
    /\ cl.weakness_map[1].line = 10

\* C27: two records kept by the within-tool deduplication under different
\* (tool, rule_id, file_path, start_line) keys carry different fingerprints,
\* also when rule_id or file_path hold the separator "|".
C27_FingerprintSeparatesKeys ==
    \A i, j \in 1..Len(deduped) :
        DedupKey(deduped[i]) # DedupKey(deduped[j])
            => deduped[i].fingerprint # deduped[j].fingerprint

\* C28: whenever the store holds a line it holds exactly one header row,
\* also when two invocations overlap on a store that does not exist yet.
C28_OneHeaderRow ==
    store_lines # <<>> =>
        Cardinality({i \in 1..Len(store_lines) : store_lines[i] = HeaderRow}) = 1

====
